---- MODULE Spec2Model ----
(***************************************************************************)
(* Model of paddle/fluid/framework/custom_kernel.cc: the custom kernel     *)
(* bridge (ParseArgs, RunKernelFunc), the registration protocol            *)
(* (RegisterKernelWithMetaInfo, RegisterKernelWithMetaInfoMap) and the     *)
(* plugin loader (LoadCustomKernelLib).                                    *)
(*                                                                         *)
(* A phi::DenseTensor object is modelled by its contents, a natural        *)
(* number; copying a DenseTensor copies that number.  Objects that are     *)
(* reached through pointers (the shared DenseTensor behind every plugin    *)
(* tensor, the heap allocated paddle::experimental::Tensor output handles) *)
(* live in two heaps, addressed by their index.                            *)
(***************************************************************************)
EXTENDS Integers, Sequences, FiniteSets, TLC

\* ------------------------------------------------------------------ bounds
\* total number of input, output and attribute definitions of a signature
MaxDefs == 2
\* largest number of tensors in the slot range of a list-valued parameter
MaxListLen == 2
\* largest number of signatures one plugin library declares
MaxLibSigs == 2
\* total number of definitions of the signature two threads call concurrently
MaxConcDefs == 1
\* largest number of signatures in the list each of two concurrent loads registers
MaxLoadSigs == 2
\* total number of definitions of a signature given to ParseArgs
MaxParseDefs == 2

Threads == {1, 2}

\* ------------------------------------------------------ small sequence helpers
Back(s) == s[Len(s)]
PopBack(s) == SubSeq(s, 1, Len(s) - 1)

\* ------------------------------------------------------------ KernelSignature
\* The attribute type identifiers RunKernelFunc has a branch for.
SupportedAttrTypes ==
  {"bool", "int", "float", "double", "int64_t", "float16", "DataType",
   "Scalar", "vector_int64_t", "ScalarArray", "vector_int"}

\* Every attribute type identifier a plugin can declare; std::string is one
\* that RunKernelFunc has no branch for.
AttrTypes == SupportedAttrTypes \cup {"string"}

\* phi::Backend values: the CPU, and two custom devices, of which only the
\* first has a device type registered in the global device type table.
Backends == {"CPU", "CUSTOM_0", "CUSTOM_1"}

\* The user kernel functions of the model (the plugin's own kernel logic):
\*   noop             writes no output
\*   write_inplace    writes a marker into the storage of every output handle
\*   replace_storage  gives every output handle new storage holding a marker
\*   mixed            writes scalar outputs in place, replaces list elements
\*   write_inputs     writes no output; writes a marker into the storage of
\*                    every single input handle and gives every handle of a
\*                    list-valued input new storage holding a marker
KernelFns == {"noop", "write_inplace", "replace_storage", "mixed", "write_inputs"}

TensorArgDef(is_vector) ==
  [backend |-> "CPU", layout |-> "ANY", dtype |-> "FLOAT32", is_vector |-> is_vector]

TensorArgDefs == {TensorArgDef(b) : b \in BOOLEAN}

AttributeArgDefs == {[type_index |-> ty] : ty \in AttrTypes}

\* ------------------------------------------------------- phi::KernelContext
\* A moved-out input slot (nullptr).
NullTensor == 0

InputsSize(c) == Len(c.inputs)
OutputsSize(c) == Len(c.outputs)
AttrsSize(c) == Len(c.attrs)

\* ranges are half-open pairs <<first, second>> of 0-based slot indices
InputRangeAt(c, idx) == c.input_range[idx + 1]
OutputRangeAt(c, idx) == c.output_range[idx + 1]

InputAt(c, idx) == c.inputs[idx + 1]
MutableOutputAt(c, idx) == c.outputs[idx + 1]

\* the tensors of slots start..end-1, which are left null in the context
MoveInputsBetween(c, start, end) ==
  [vec |-> [i \in 1..(end - start) |-> c.inputs[start + i]],
   ctx |-> [c EXCEPT !.inputs =
              [s \in 1..Len(c.inputs) |->
                 IF s > start /\ s <= end THEN NullTensor ELSE c.inputs[s]]]]

\* the (0-based) slot indices start..end-1
MutableOutputBetween(c, start, end) == [i \in 1..(end - start) |-> start + i - 1]

AttrAt(c, idx) == c.attrs[idx + 1].val

\* ------------------------------------------------------------- device types
GlobalDeviceTypes == <<"custom_npu">>

\* static_cast<size_t>(backend) - static_cast<size_t>(phi::Backend::ALL_BACKEND)
DeviceTypeId(backend) == IF backend = "CUSTOM_0" THEN 0 ELSE 1

GetGlobalDeviceType(id) ==
  IF id < Len(GlobalDeviceTypes) THEN GlobalDeviceTypes[id + 1] ELSE ""

\* ------------------------------------------------------------ RunKernelFunc
\* The state of one call: its position, the borrowed KernelContext, the local
\* variables, the two heaps, the error it raised ("" for none), and what the
\* user kernel function did (how often it ran, what it wrote).
EmptyFrame ==
  [custom_ins |-> <<>>, custom_vec_ins |-> <<>>, custom_attrs |-> <<>>,
   custom_outs |-> <<>>, custom_vec_outs |-> <<>>,
   custom_outs_ptr |-> <<>>, custom_vec_outs_ptr |-> <<>>,
   dev_ctx |-> [stream |-> "none"]]

\* PADDLE_ENFORCE_GE / PADDLE_ENFORCE_EQ on the three sizes
SizesOk(sig, c) ==
  /\ InputsSize(c) >= Len(sig.input_defs)
  /\ OutputsSize(c) >= Len(sig.output_defs)
  /\ AttrsSize(c) = Len(sig.attribute_defs)

\* CheckSizes with the attribute count checked like the tensor counts
CheckSizesAttrsAtLeast(sig, cs) ==
  IF /\ InputsSize(cs.ctx) >= Len(sig.input_defs)
     /\ OutputsSize(cs.ctx) >= Len(sig.output_defs)
     /\ AttrsSize(cs.ctx) >= Len(sig.attribute_defs)
    THEN [cs EXCEPT !.pc = "inputs"]
    ELSE [cs EXCEPT !.pc = "done", !.error = "InvalidArgument"]

CheckSizes(sig, cs) ==
  IF SizesOk(sig, cs.ctx)
    THEN [cs EXCEPT !.pc = "inputs"]
    ELSE [cs EXCEPT !.pc = "done", !.error = "InvalidArgument"]

\* Alloc that keeps one scratch object and hands it out again and again
AllocScratch(hp, t) ==
  IF hp = <<>> THEN <<t>> ELSE [hp EXCEPT ![Len(hp)] = t]

\* std::make_shared<phi::DenseTensor>(t): a new shared object holding a copy
Alloc(hp, t) == Append(hp, t)

\* WrapInputs that puts every new handle in front of the ones before it
RECURSIVE WrapInputsReversed(_, _, _, _)
WrapInputsReversed(ctx_tensor_vec, i, hp, custom_vec_in) ==
  IF i > Len(ctx_tensor_vec)
    THEN [heap |-> hp, custom_vec_in |-> custom_vec_in]
    ELSE
      LET hp2 == Alloc(hp, ctx_tensor_vec[i])
          custom_t == [impl |-> Len(hp2)]
      IN WrapInputsReversed(ctx_tensor_vec, i + 1, hp2,
                            <<custom_t>> \o custom_vec_in)

\* the loop over ctx_tensor_vec, from position i on
RECURSIVE WrapInputs(_, _, _, _)
WrapInputs(ctx_tensor_vec, i, hp, custom_vec_in) ==
  IF i > Len(ctx_tensor_vec)
    THEN [heap |-> hp, custom_vec_in |-> custom_vec_in]
    ELSE
      LET hp2 == Alloc(hp, ctx_tensor_vec[i])
          custom_t == [impl |-> Len(hp2)]
      IN WrapInputs(ctx_tensor_vec, i + 1, hp2, Append(custom_vec_in, custom_t))

\* MapInputsFrom that moves the slot of a single tensor input out of the
\* context as it does the slots of a list
RECURSIVE MapInputsFromMoveAll(_, _, _)
MapInputsFromMoveAll(input_defs, in_idx, cs) ==
  IF in_idx >= Len(input_defs) THEN cs
  ELSE
    LET range == InputRangeAt(cs.ctx, in_idx) IN
    IF ~input_defs[in_idx + 1].is_vector
      THEN
        LET moved == MoveInputsBetween(cs.ctx, range[1], range[1] + 1)
            hp == Alloc(cs.heap, moved.vec[1])
            custom_t == [impl |-> Len(hp)]
        IN MapInputsFromMoveAll(input_defs, in_idx + 1,
             [cs EXCEPT !.ctx = moved.ctx,
                        !.heap = hp,
                        !.frame.custom_ins = Append(@, custom_t)])
      ELSE
        LET moved == MoveInputsBetween(cs.ctx, range[1], range[2])
            r == WrapInputs(moved.vec, 1, cs.heap, <<>>)
        IN MapInputsFromMoveAll(input_defs, in_idx + 1,
             [cs EXCEPT !.ctx = moved.ctx,
                        !.heap = r.heap,
                        !.frame.custom_vec_ins = Append(@, r.custom_vec_in)])

RECURSIVE MapInputsFrom(_, _, _)
MapInputsFrom(input_defs, in_idx, cs) ==
  IF in_idx >= Len(input_defs) THEN cs
  ELSE
    LET range == InputRangeAt(cs.ctx, in_idx) IN
    IF ~input_defs[in_idx + 1].is_vector
      THEN
        LET ctx_tensor == InputAt(cs.ctx, range[1])
            hp == Alloc(cs.heap, ctx_tensor)
            custom_t == [impl |-> Len(hp)]
        IN MapInputsFrom(input_defs, in_idx + 1,
             [cs EXCEPT !.heap = hp,
                        !.frame.custom_ins = Append(@, custom_t)])
      ELSE
        LET moved == MoveInputsBetween(cs.ctx, range[1], range[2])
            r == WrapInputs(moved.vec, 1, cs.heap, <<>>)
        IN MapInputsFrom(input_defs, in_idx + 1,
             [cs EXCEPT !.ctx = moved.ctx,
                        !.heap = r.heap,
                        !.frame.custom_vec_ins = Append(@, r.custom_vec_in)])

MapInputs(sig, cs) ==
  [MapInputsFrom(sig.input_defs, 0, cs) EXCEPT !.pc = "attrs"]

\* MapAttrsFrom without the final else: an unsupported type is passed over
RECURSIVE MapAttrsFromNoThrow(_, _, _)
MapAttrsFromNoThrow(attribute_defs, attr_idx, cs) ==
  IF attr_idx >= Len(attribute_defs) THEN [cs EXCEPT !.pc = "outputs"]
  ELSE IF attribute_defs[attr_idx + 1].type_index \in SupportedAttrTypes
    THEN
      LET arg == AttrAt(cs.ctx, attr_idx) IN
      MapAttrsFromNoThrow(attribute_defs, attr_idx + 1,
        [cs EXCEPT !.frame.custom_attrs = Append(@, arg)])
    ELSE MapAttrsFromNoThrow(attribute_defs, attr_idx + 1, cs)

RECURSIVE MapAttrsFrom(_, _, _)
MapAttrsFrom(attribute_defs, attr_idx, cs) ==
  IF attr_idx >= Len(attribute_defs) THEN [cs EXCEPT !.pc = "outputs"]
  ELSE IF attribute_defs[attr_idx + 1].type_index \in SupportedAttrTypes
    THEN
      LET arg == AttrAt(cs.ctx, attr_idx) IN
      MapAttrsFrom(attribute_defs, attr_idx + 1,
        [cs EXCEPT !.frame.custom_attrs = Append(@, arg)])
    ELSE [cs EXCEPT !.pc = "done", !.error = "Unimplemented"]

MapAttrs(sig, cs) == MapAttrsFrom(sig.attribute_defs, 0, cs)

\* NewOutputs with the retained pointer made from a second copy of the slot,
\* not shared with the handle
RECURSIVE NewOutputsUnshared(_, _, _, _, _)
NewOutputsUnshared(ctx_tensor_vec, i, cs, hs, ps) ==
  IF i > Len(ctx_tensor_vec) THEN [cs |-> cs, outs |-> hs, ptrs |-> ps]
  ELSE
    LET ctx_tensor == MutableOutputAt(cs.ctx, ctx_tensor_vec[i])
        hp1 == Alloc(cs.heap, ctx_tensor)
        impl == Len(hp1)
        hp == Alloc(hp1, ctx_tensor)
        custom_t_ptr == Len(hp)
        ts == Append(cs.tensors, [impl |-> impl, live |-> TRUE])
        custom_t == Len(ts)
    IN NewOutputsUnshared(ctx_tensor_vec, i + 1,
         [cs EXCEPT !.heap = hp, !.tensors = ts],
         Append(hs, custom_t), Append(ps, custom_t_ptr))

\* NewOutputs with std::make_shared<phi::DenseTensor>(): storage that is not
\* made from the slot
RECURSIVE NewOutputsUnseeded(_, _, _, _, _)
NewOutputsUnseeded(ctx_tensor_vec, i, cs, hs, ps) ==
  IF i > Len(ctx_tensor_vec) THEN [cs |-> cs, outs |-> hs, ptrs |-> ps]
  ELSE
    LET hp == Alloc(cs.heap, NullTensor)
        custom_t_ptr == Len(hp)
        ts == Append(cs.tensors, [impl |-> custom_t_ptr, live |-> TRUE])
        custom_t == Len(ts)
    IN NewOutputsUnseeded(ctx_tensor_vec, i + 1,
         [cs EXCEPT !.heap = hp, !.tensors = ts],
         Append(hs, custom_t), Append(ps, custom_t_ptr))

\* new paddle::experimental::Tensor() with set_impl(custom_t_ptr), for the
\* slots of ctx_tensor_vec from position i on; hs and ps collect the handles
\* and the retained shared pointers
RECURSIVE NewOutputs(_, _, _, _, _)
NewOutputs(ctx_tensor_vec, i, cs, hs, ps) ==
  IF i > Len(ctx_tensor_vec) THEN [cs |-> cs, outs |-> hs, ptrs |-> ps]
  ELSE
    LET ctx_tensor == MutableOutputAt(cs.ctx, ctx_tensor_vec[i])
        hp == Alloc(cs.heap, ctx_tensor)
        custom_t_ptr == Len(hp)
        ts == Append(cs.tensors, [impl |-> custom_t_ptr, live |-> TRUE])
        custom_t == Len(ts)
    IN NewOutputs(ctx_tensor_vec, i + 1,
         [cs EXCEPT !.heap = hp, !.tensors = ts],
         Append(hs, custom_t), Append(ps, custom_t_ptr))

RECURSIVE MapOutputsFrom(_, _, _)
MapOutputsFrom(output_defs, out_idx, cs) ==
  IF out_idx >= Len(output_defs) THEN cs
  ELSE
    LET range == OutputRangeAt(cs.ctx, out_idx) IN
    IF ~output_defs[out_idx + 1].is_vector
      THEN
        LET r == NewOutputs(<<range[1]>>, 1, cs, <<>>, <<>>) IN
        MapOutputsFrom(output_defs, out_idx + 1,
          [r.cs EXCEPT !.frame.custom_outs = Append(@, r.outs[1]),
                       !.frame.custom_outs_ptr = Append(@, r.ptrs[1])])
      ELSE
        LET ctx_tensor_vec == MutableOutputBetween(cs.ctx, range[1], range[2])
            r == NewOutputs(ctx_tensor_vec, 1, cs, <<>>, <<>>)
        IN MapOutputsFrom(output_defs, out_idx + 1,
             [r.cs EXCEPT !.frame.custom_vec_outs = Append(@, r.outs),
                          !.frame.custom_vec_outs_ptr = Append(@, r.ptrs)])

MapOutputs(sig, cs) ==
  [MapOutputsFrom(sig.output_defs, 0, cs) EXCEPT !.pc = "devctx"]

\* SelectDeviceContext without the return after LOG(ERROR)
SelectDeviceContextNoReturn(backend, custom_device, c) ==
  IF backend = "CPU"
    THEN [proceed |-> TRUE, stream |-> "none"]
    ELSE IF custom_device /\ GetGlobalDeviceType(DeviceTypeId(backend)) # ""
      THEN [proceed |-> FALSE, stream |-> c.dev_stream]
      ELSE [proceed |-> TRUE, stream |-> "none"]

\* What the DeviceContext block does: go on to the user function, or return;
\* and the stream it sets on dev_ctx.
SelectDeviceContext(backend, custom_device, c) ==
  IF backend = "CPU"
    THEN [proceed |-> TRUE, stream |-> "none"]
    ELSE IF custom_device /\ GetGlobalDeviceType(DeviceTypeId(backend)) # ""
      THEN [proceed |-> FALSE, stream |-> c.dev_stream]
      ELSE [proceed |-> FALSE, stream |-> "none"]

DeviceCtx(sig, custom_device, cs) ==
  LET d == SelectDeviceContext(sig.backend, custom_device, cs.ctx) IN
  [cs EXCEPT !.frame.dev_ctx.stream = d.stream,
             !.pc = IF d.proceed THEN "invoke" ELSE "done"]

\* ------------------------------------------------------ user kernel function
\* The output handles as the user function sees them: the scalar handles of
\* custom_outs (kind "s", idx-th of them) and the elements of the lists of
\* custom_vec_outs (kind "v", elem-th element of the idx-th list).
OutHandles(fr) ==
  LET S == {[kind |-> "s", idx |-> a, elem |-> 1, h |-> fr.custom_outs[a]] :
              a \in DOMAIN fr.custom_outs}
      V == UNION {{[kind |-> "v", idx |-> b, elem |-> j,
                    h |-> fr.custom_vec_outs[b][j]] :
                     j \in DOMAIN fr.custom_vec_outs[b]} :
                  b \in DOMAIN fr.custom_vec_outs}
  IN S \cup V

\* the value the user function writes to a handle: one per handle
Marker(kind, idx, elem) == 100 + (IF kind = "v" THEN 50 ELSE 0) + 10 * idx + elem

WriteMode(fn, kind) ==
  CASE fn = "noop" -> "none"
    [] fn = "write_inplace" -> "inplace"
    [] fn = "replace_storage" -> "replace"
    [] fn = "mixed" -> IF kind = "s" THEN "inplace" ELSE "replace"
    [] fn = "write_inputs" -> "none"

\* the user function's effect on the heaps, handle by handle
RECURSIVE ApplyWrites(_, _, _)
ApplyWrites(fn, todo, cs) ==
  IF todo = {} THEN cs
  ELSE
    LET w == CHOOSE x \in todo : TRUE
        v == Marker(w.kind, w.idx, w.elem)
        mode == WriteMode(fn, w.kind)
        rec == [kind |-> w.kind, idx |-> w.idx, elem |-> w.elem,
                mode |-> mode, val |-> v]
    IN
    IF mode = "inplace"
      THEN ApplyWrites(fn, todo \ {w},
             [cs EXCEPT !.heap[cs.tensors[w.h].impl] = v,
                        !.writes = @ \cup {rec}])
    ELSE IF mode = "replace"
      THEN ApplyWrites(fn, todo \ {w},
             [cs EXCEPT !.heap = Alloc(@, v),
                        !.tensors[w.h].impl = Len(Alloc(cs.heap, v)),
                        !.writes = @ \cup {rec}])
    ELSE ApplyWrites(fn, todo \ {w}, cs)

\* The input handles as the user function sees them: the handles of
\* custom_ins (kind "s") and the elements of the lists of custom_vec_ins
\* (kind "v").
InHandles(fr) ==
  LET S == {[kind |-> "s", idx |-> a, elem |-> 1] : a \in DOMAIN fr.custom_ins}
      V == UNION {{[kind |-> "v", idx |-> b, elem |-> j] :
                     j \in DOMAIN fr.custom_vec_ins[b]} :
                  b \in DOMAIN fr.custom_vec_ins}
  IN S \cup V

\* the value the user function writes to an input handle
InputMarker(kind, idx, elem) == 200 + (IF kind = "v" THEN 50 ELSE 0) + 10 * idx + elem

\* the user function's writes to the input handles it received
RECURSIVE ApplyInputWrites(_, _, _)
ApplyInputWrites(fn, todo, cs) ==
  IF todo = {} \/ fn # "write_inputs" THEN cs
  ELSE
    LET w == CHOOSE x \in todo : TRUE
        v == InputMarker(w.kind, w.idx, w.elem)
    IN
    IF w.kind = "s"
      THEN ApplyInputWrites(fn, todo \ {w},
             [cs EXCEPT !.heap[cs.frame.custom_ins[w.idx].impl] = v])
      ELSE ApplyInputWrites(fn, todo \ {w},
             [cs EXCEPT !.heap = Alloc(@, v),
                        !.frame.custom_vec_ins[w.idx][w.elem].impl =
                          Len(Alloc(cs.heap, v))])

UserKernelFn(fn, cs) ==
  [ApplyWrites(fn, OutHandles(cs.frame),
               ApplyInputWrites(fn, InHandles(cs.frame), cs))
     EXCEPT !.invoked = @ + 1]

\* user_kernel_fn(dev_ctx, custom_ins, custom_vec_ins, custom_attrs,
\*                &custom_outs, &custom_vec_outs)
Invoke(sig, cs) == [UserKernelFn(sig.kernel_fn, cs) EXCEPT !.pc = "mapback"]

\* -------------------------------------------------------------- write-back
\* MapBackVec walking the slots forward while it pops from the end
RECURSIVE MapBackVecForward(_, _, _, _)
MapBackVecForward(ctx_tensor_vec, idx, custom_vec_ptr_out, cs) ==
  IF idx < 0 THEN cs
  ELSE MapBackVecForward(ctx_tensor_vec, idx - 1, PopBack(custom_vec_ptr_out),
         [cs EXCEPT !.ctx.outputs[ctx_tensor_vec[Len(ctx_tensor_vec) - idx] + 1] =
                      cs.heap[Back(custom_vec_ptr_out)]])

\* the inner loop: idx from ctx_tensor_vec.size() - 1 down to 0
RECURSIVE MapBackVec(_, _, _, _)
MapBackVec(ctx_tensor_vec, idx, custom_vec_ptr_out, cs) ==
  IF idx < 0 THEN cs
  ELSE MapBackVec(ctx_tensor_vec, idx - 1, PopBack(custom_vec_ptr_out),
         [cs EXCEPT !.ctx.outputs[ctx_tensor_vec[idx + 1] + 1] =
                      cs.heap[Back(custom_vec_ptr_out)]])

\* the outer loop: out_idx from output_defs.size() - 1 down to 0
RECURSIVE MapBackFrom(_, _, _)
MapBackFrom(output_defs, out_idx, cs) ==
  IF out_idx < 0 THEN cs
  ELSE
    LET range == OutputRangeAt(cs.ctx, out_idx) IN
    IF ~output_defs[out_idx + 1].is_vector
      THEN MapBackFrom(output_defs, out_idx - 1,
             [cs EXCEPT !.ctx.outputs[range[1] + 1] =
                          cs.heap[Back(cs.frame.custom_outs_ptr)],
                        !.frame.custom_outs_ptr = PopBack(@)])
      ELSE
        LET ctx_tensor_vec == MutableOutputBetween(cs.ctx, range[1], range[2])
            custom_vec_ptr_out == Back(cs.frame.custom_vec_outs_ptr)
            r == MapBackVec(ctx_tensor_vec, Len(ctx_tensor_vec) - 1,
                            custom_vec_ptr_out, cs)
        IN MapBackFrom(output_defs, out_idx - 1,
             [r EXCEPT !.frame.custom_vec_outs_ptr = PopBack(@)])

MapBack(sig, cs) ==
  [MapBackFrom(sig.output_defs, Len(sig.output_defs) - 1, cs)
     EXCEPT !.pc = "cleanup"]

\* delete custom_outs[i]; delete custom_vec_outs[i][j]
DeleteOutputs(cs) ==
  LET hs == {x.h : x \in OutHandles(cs.frame)} IN
  [cs EXCEPT !.tensors = [h \in DOMAIN cs.tensors |->
                            IF h \in hs THEN [cs.tensors[h] EXCEPT !.live = FALSE]
                                        ELSE cs.tensors[h]],
             !.pc = "done"]

\* The whole call, on heaps of its own.
RECURSIVE RunFrom(_, _, _)
RunFrom(sig, custom_device, cs) ==
  CASE cs.pc = "check" -> RunFrom(sig, custom_device, CheckSizes(sig, cs))
    [] cs.pc = "inputs" -> RunFrom(sig, custom_device, MapInputs(sig, cs))
    [] cs.pc = "attrs" -> RunFrom(sig, custom_device, MapAttrs(sig, cs))
    [] cs.pc = "outputs" -> RunFrom(sig, custom_device, MapOutputs(sig, cs))
    [] cs.pc = "devctx" -> RunFrom(sig, custom_device, DeviceCtx(sig, custom_device, cs))
    [] cs.pc = "invoke" -> RunFrom(sig, custom_device, Invoke(sig, cs))
    [] cs.pc = "mapback" -> RunFrom(sig, custom_device, MapBack(sig, cs))
    [] cs.pc = "cleanup" -> RunFrom(sig, custom_device, DeleteOutputs(cs))
    [] OTHER -> cs

NewCall(c) ==
  [pc |-> "check", ctx |-> c, frame |-> EmptyFrame, heap |-> <<>>,
   tensors |-> <<>>, error |-> "", invoked |-> 0, writes |-> {}]

RunKernelFunc(c, sig, custom_device) == RunFrom(sig, custom_device, NewCall(c))

\* ---------------------------------------------------------------- ParseArgs
\* ParseTensorArgs that tags every entry as a single tensor
ParseTensorArgsAllSingle(defs) ==
  [i \in 1..Len(defs) |->
     [backend |-> defs[i].backend, layout |-> defs[i].layout,
      dtype |-> defs[i].dtype, type_index |-> "DenseTensor"]]

TensorTypeIndex(is_vector) ==
  IF is_vector THEN "vector<DenseTensor>" ELSE "DenseTensor"

ParseTensorArgs(defs) ==
  [i \in 1..Len(defs) |->
     [backend |-> defs[i].backend, layout |-> defs[i].layout,
      dtype |-> defs[i].dtype,
      type_index |-> TensorTypeIndex(defs[i].is_vector)]]

\* the phi::KernelArgsDef filled from op_kernel_info
ParseArgs(op_kernel_info) ==
  [input_defs |-> ParseTensorArgs(op_kernel_info.input_defs),
   output_defs |-> ParseTensorArgs(op_kernel_info.output_defs),
   attribute_defs |->
     [i \in 1..Len(op_kernel_info.attribute_defs) |->
        [type_index |-> op_kernel_info.attribute_defs[i].type_index]]]

\* --------------------------------------------------------- phi::KernelFactory
OpNames == {"op_a", "op_b", "op_new"}
KernelKeys == {"key_1", "key_2"}

\* the OpKernelInfo of a kernel of op for the kernel key key, with the kernel
\* function fn
OpKernelInfo(op, key, fn) ==
  [op_name |-> op, kernel_key |-> key, backend |-> "CPU",
   input_defs |-> <<TensorArgDef(FALSE)>>,
   output_defs |-> <<TensorArgDef(fn = "replace_storage")>>,
   attribute_defs |-> <<[type_index |-> "int"]>>,
   kernel_fn |-> fn]

\* the signatures a plugin library can declare
PluginSignatures ==
  {OpKernelInfo(op, key, fn) :
     op \in OpNames, key \in KernelKeys, fn \in {"write_inplace", "replace_storage"}}

\* phi::Kernel(kernel_fn, variadic_kernel_fn) with its args_def: kernel_fn is
\* the closure, modelled by the OpKernelInfo it captured by value
Kernel(kernel_info) ==
  [kernel_fn |-> kernel_info, args_def |-> ParseArgs(kernel_info)]

\* the kernels compiled into the framework
BuiltinKernels ==
  ("op_a" :> ("key_1" :> Kernel(OpKernelInfo("op_a", "key_1", "native")))) @@
  ("op_b" :> ("key_2" :> Kernel(OpKernelInfo("op_b", "key_2", "native"))))

EmptyKernelMap == [k \in {} |-> k]

HasCompatiblePtenKernel(kernels_, op_type) == op_type \in DOMAIN kernels_

\* kernels()[op_type]: operator[] of the map of maps adds an empty entry for
\* an op_type that has none
KernelsAt(kernels_, op_type) ==
  IF op_type \in DOMAIN kernels_ THEN kernels_
  ELSE kernels_ @@ (op_type :> EmptyKernelMap)

\* kernels()[op_type][kernel_key] = kernel
SetKernel(kernels_, op_type, kernel_key, kernel) ==
  LET k == KernelsAt(kernels_, op_type) IN
  [k EXCEPT ![op_type] = (kernel_key :> kernel) @@ @]

\* ------------------------------------------------- RegisterKernelWithMetaInfo
NoError == [class |-> "", what |-> ""]
NotReadyError == [class |-> "InvalidArgument", what |-> "not ready for custom kernel registering"]
AlreadyExistedError == [class |-> "InvalidArgument", what |-> "has been already existed"]

\* CheckOpReady without the check
CheckOpReadySkipped(kernels_, op_type) == TRUE

\* 1.Check whether this kernel is valid for a specific operator
CheckOpReady(kernels_, op_type) == HasCompatiblePtenKernel(kernels_, op_type)

\* CheckKeyFree without the check
CheckKeyFreeSkipped(kernels_, op_type, kernel_key) == TRUE

\* 2.Check whether kernel_key has been already registed
CheckKeyFree(kernels_, op_type, kernel_key) ==
  kernel_key \notin DOMAIN KernelsAt(kernels_, op_type)[op_type]

\* RegisterFrom that goes on to the next signature after a failed check
RECURSIVE RegisterFromSkipFailed(_, _, _)
RegisterFromSkipFailed(op_kernel_infos, i, r) ==
  IF i >= Len(op_kernel_infos) THEN r
  ELSE
    LET kernel_info == op_kernel_infos[i + 1]
        op_type == kernel_info.op_name
        kernel_key == kernel_info.kernel_key
        entry == [info |-> kernel_info, before |-> r.kernels]
    IN
    IF ~CheckOpReady(r.kernels, op_type)
      THEN RegisterFromSkipFailed(op_kernel_infos, i + 1,
             [r EXCEPT !.error = NotReadyError,
                       !.log = Append(@, entry @@ [outcome |-> "not_ready"])])
    ELSE IF ~CheckKeyFree(r.kernels, op_type, kernel_key)
      THEN RegisterFromSkipFailed(op_kernel_infos, i + 1,
             [r EXCEPT !.kernels = KernelsAt(@, op_type),
                       !.error = AlreadyExistedError,
                       !.log = Append(@, entry @@ [outcome |-> "already_existed"])])
    ELSE RegisterFromSkipFailed(op_kernel_infos, i + 1,
           [r EXCEPT !.kernels = SetKernel(@, op_type, kernel_key, Kernel(kernel_info)),
                     !.log = Append(@, entry @@ [outcome |-> "installed"])])

\* The loop over op_kernel_infos from position i on.  r.kernels is the
\* dispatch table, r.error the error raised, and r.log records for every
\* signature reached the table it met and what became of it.
RECURSIVE RegisterFrom(_, _, _)
RegisterFrom(op_kernel_infos, i, r) ==
  IF i >= Len(op_kernel_infos) THEN r
  ELSE
    LET kernel_info == op_kernel_infos[i + 1]
        op_type == kernel_info.op_name
        kernel_key == kernel_info.kernel_key
        entry == [info |-> kernel_info, before |-> r.kernels]
    IN
    IF ~CheckOpReady(r.kernels, op_type)
      THEN [r EXCEPT !.error = NotReadyError,
                     !.log = Append(@, entry @@ [outcome |-> "not_ready"])]
    ELSE IF ~CheckKeyFree(r.kernels, op_type, kernel_key)
      THEN [r EXCEPT !.kernels = KernelsAt(@, op_type),
                     !.error = AlreadyExistedError,
                     !.log = Append(@, entry @@ [outcome |-> "already_existed"])]
    ELSE RegisterFrom(op_kernel_infos, i + 1,
           [r EXCEPT !.kernels = SetKernel(@, op_type, kernel_key, Kernel(kernel_info)),
                     !.log = Append(@, entry @@ [outcome |-> "installed"])])

RegisterKernelWithMetaInfo(op_kernel_infos, r) ==
  RegisterFrom(op_kernel_infos, 0, [r EXCEPT !.passed = Append(@, op_kernel_infos)])

\* The loop over the op name groups of the map, in the map's iteration order;
\* an error raised for one group ends it.
RECURSIVE RegisterMapFrom(_, _, _)
RegisterMapFrom(groups, g, r) ==
  IF g > Len(groups) \/ r.error # NoError THEN r
  ELSE RegisterMapFrom(groups, g + 1, RegisterKernelWithMetaInfo(groups[g], r))

RegisterKernelWithMetaInfoMap(groups, r) == RegisterMapFrom(groups, 1, r)

\* LoadCustomKernelLib without the test of func for nullptr
LoadCustomKernelLibNoSymbolTest(lib, r) ==
  RegisterKernelWithMetaInfoMap(lib.groups, r)

\* dlsym(dso_handle, "PD_GetOpKernelInfoMap"), then the registration
LoadCustomKernelLib(lib, r) ==
  IF ~lib.has_symbol THEN r
  ELSE RegisterKernelWithMetaInfoMap(lib.groups, r)

\* ------------------------------------------------------------------- state
VARIABLES
  kernel_info,         \* the OpKernelInfo captured by the kernel_fn closure
  with_custom_device,  \* whether the build defines PADDLE_WITH_CUSTOM_DEVICE
  pc,                  \* per thread: the position of its RunKernelFunc call
  ctx,                 \* per thread: the phi::KernelContext of its call
  frame,               \* per thread: the local variables of RunKernelFunc
  heap,                \* the shared phi::DenseTensor objects, by address
  tensors,             \* the paddle::experimental::Tensor output handles
  error,               \* per thread: the error its call raised, "" for none
  invoked,             \* per thread: how often the user function was called
  writes,              \* per thread: what the user function wrote
  ctx0,                \* per thread: the KernelContext as the call received it
  kernels,             \* phi::KernelFactory::Instance().kernels()
  pending,             \* the signatures declared by the library being loaded
  last,                \* the last registration call: arguments and outcome
  loads,               \* per thread: its RegisterKernelWithMetaInfo call in progress
  parse                \* the ParseArgs call: its position and the KernelArgsDef

runVars == <<kernel_info, with_custom_device, pc, ctx, frame, heap, tensors,
             error, invoked, writes, ctx0>>
regVars == <<kernels, pending, last, loads, parse>>
vars == <<runVars, regVars>>

\* ---------------------------------------------------------------- contexts
RECURSIVE SumTo(_, _)
SumTo(lens, n) == IF n = 0 THEN 0 ELSE SumTo(lens, n - 1) + lens[n]

\* the range table of a context whose i-th parameter holds lens[i] tensors
RangeTable(lens) ==
  [i \in 1..Len(lens) |-> <<SumTo(lens, i - 1), SumTo(lens, i)>>]

\* the numbers of tensors a context can hold for the parameters defs: one for
\* a single tensor, 0..MaxListLen for a list
ListLens(defs) ==
  {lens \in [1..Len(defs) -> 0..MaxListLen] :
     \A i \in 1..Len(defs) : ~defs[i].is_vector => lens[i] = 1}

\* the numbers of attributes a context can hold for n attribute definitions
AttrCounts(n) == {m \in {n - 1, n, n + 1} : m >= 0}

MakeContext(t, sig, inlens, outlens, nattr) ==
  [inputs |-> [s \in 1..SumTo(inlens, Len(inlens)) |-> 50 + 20 * (t - 1) + s],
   input_range |-> RangeTable(inlens),
   outputs |-> [s \in 1..SumTo(outlens, Len(outlens)) |-> 10 + 20 * (t - 1) + s],
   output_range |-> RangeTable(outlens),
   attrs |-> [i \in 1..nattr |->
                [type |-> IF i <= Len(sig.attribute_defs)
                            THEN sig.attribute_defs[i].type_index ELSE "int",
                 val |-> i]],
   dev_stream |-> IF t = 1 THEN "stream_1" ELSE "stream_2"]

EmptyContext ==
  [inputs |-> <<>>, input_range |-> <<>>, outputs |-> <<>>,
   output_range |-> <<>>, attrs |-> <<>>, dev_stream |-> "none"]

\* the signatures with n_in inputs, n_out outputs and n_attr attributes
KernelSignatures(n_in, n_out, n_attr) ==
  [op_name : {"op_a"}, kernel_key : {"key_1"}, backend : Backends,
   input_defs : [1..n_in -> TensorArgDefs],
   output_defs : [1..n_out -> TensorArgDefs],
   attribute_defs : [1..n_attr -> AttributeArgDefs],
   kernel_fn : KernelFns]

\* ------------------------------------------------ the calls of RunKernelFunc
CallState(t) ==
  [pc |-> pc[t], ctx |-> ctx[t], frame |-> frame[t], heap |-> heap,
   tensors |-> tensors, error |-> error[t], invoked |-> invoked[t],
   writes |-> writes[t]]

Commit(t, cs) ==
  /\ pc' = [pc EXCEPT ![t] = cs.pc]
  /\ ctx' = [ctx EXCEPT ![t] = cs.ctx]
  /\ frame' = [frame EXCEPT ![t] = cs.frame]
  /\ heap' = cs.heap
  /\ tensors' = cs.tensors
  /\ error' = [error EXCEPT ![t] = cs.error]
  /\ invoked' = [invoked EXCEPT ![t] = cs.invoked]
  /\ writes' = [writes EXCEPT ![t] = cs.writes]
  /\ UNCHANGED <<kernel_info, with_custom_device, ctx0, regVars>>

RunCheckSizes(t) ==
  /\ pc[t] = "check"
  /\ Commit(t, CheckSizes(kernel_info, CallState(t)))

RunMapInputs(t) ==
  /\ pc[t] = "inputs"
  /\ Commit(t, MapInputs(kernel_info, CallState(t)))

RunMapAttrs(t) ==
  /\ pc[t] = "attrs"
  /\ Commit(t, MapAttrs(kernel_info, CallState(t)))

RunMapOutputs(t) ==
  /\ pc[t] = "outputs"
  /\ Commit(t, MapOutputs(kernel_info, CallState(t)))

RunDeviceCtx(t) ==
  /\ pc[t] = "devctx"
  /\ Commit(t, DeviceCtx(kernel_info, with_custom_device, CallState(t)))

RunInvoke(t) ==
  /\ pc[t] = "invoke"
  /\ Commit(t, Invoke(kernel_info, CallState(t)))

RunMapBack(t) ==
  /\ pc[t] = "mapback"
  /\ Commit(t, MapBack(kernel_info, CallState(t)))

RunDeleteOutputs(t) ==
  /\ pc[t] = "cleanup"
  /\ Commit(t, DeleteOutputs(CallState(t)))

\* ------------------------------------------------------------ registration
NoCall ==
  [api |-> "none", has_symbol |-> FALSE, groups |-> <<>>,
   before |-> BuiltinKernels, log |-> <<>>, passed |-> <<>>, error |-> NoError]

\* the args_def of a phi::Kernel as its constructor leaves it
EmptyArgsDef == [input_defs |-> <<>>, output_defs |-> <<>>, attribute_defs |-> <<>>]

\* no ParseArgs call
NoParse == [pc |-> "idle", args_def |-> EmptyArgsDef]

\* a thread that registers nothing
NoLoad ==
  [op_kernel_infos |-> <<>>, i |-> 0, pc |-> "done", error |-> NoError,
   log |-> <<>>]

RegInit ==
  /\ kernels = BuiltinKernels
  /\ pending = <<>>
  /\ last = NoCall
  /\ loads = [t \in Threads |-> NoLoad]
  /\ parse = NoParse

\* The op name groups of the library's OpKernelInfoMap, in the iteration
\* order of its hash map: the group of order[1] first.
GroupsOf(infos, order) ==
  [g \in 1..Len(order) |->
     SelectSeq(infos, LAMBDA x : x.op_name = order[g])]

OpNamesOf(infos) == {infos[i].op_name : i \in 1..Len(infos)}

\* the iteration orders the hash map can have
MapOrders(infos) ==
  {order \in [1..Cardinality(OpNamesOf(infos)) -> OpNamesOf(infos)] :
     \A i, j \in DOMAIN order : i # j => order[i] # order[j]}

StartCall == [kernels |-> kernels, error |-> NoError, log |-> <<>>, passed |-> <<>>]

Finish(api, has_symbol, groups, r) ==
  /\ kernels' = r.kernels
  /\ pending' = <<>>
  /\ last' = [api |-> api, has_symbol |-> has_symbol, groups |-> groups,
              before |-> kernels, log |-> r.log, passed |-> r.passed,
              error |-> r.error]
  /\ UNCHANGED <<loads, parse, runVars>>

\* a static registrar of the plugin library adds a signature to its map
PluginDeclares ==
  /\ Len(pending) < MaxLibSigs
  /\ \E info \in PluginSignatures : pending' = Append(pending, info)
  /\ last' = NoCall
  /\ UNCHANGED <<kernels, loads, parse, runVars>>

CallRegisterKernelWithMetaInfo ==
  Finish("RegisterKernelWithMetaInfo", TRUE, <<pending>>,
         RegisterKernelWithMetaInfo(pending, StartCall))

CallRegisterKernelWithMetaInfoMap ==
  \E order \in MapOrders(pending) :
    LET groups == GroupsOf(pending, order) IN
    Finish("RegisterKernelWithMetaInfoMap", TRUE, groups,
           RegisterKernelWithMetaInfoMap(groups, StartCall))

CallLoadCustomKernelLib ==
  \E has_symbol \in BOOLEAN : \E order \in MapOrders(pending) :
    LET groups == GroupsOf(pending, order) IN
    Finish("LoadCustomKernelLib", has_symbol, groups,
           LoadCustomKernelLib([has_symbol |-> has_symbol, groups |-> groups],
                               StartCall))

NoCalls ==
  /\ kernel_info = OpKernelInfo("op_a", "key_1", "native")
  /\ with_custom_device = FALSE
  /\ pc = [t \in Threads |-> "idle"]
  /\ ctx = [t \in Threads |-> EmptyContext]
  /\ ctx0 = ctx
  /\ frame = [t \in Threads |-> EmptyFrame]
  /\ heap = <<>>
  /\ tensors = <<>>
  /\ error = [t \in Threads |-> ""]
  /\ invoked = [t \in Threads |-> 0]
  /\ writes = [t \in Threads |-> {}]

InitReg == NoCalls /\ RegInit

NextReg ==
  \/ PluginDeclares
  \/ CallRegisterKernelWithMetaInfo
  \/ CallRegisterKernelWithMetaInfoMap
  \/ CallLoadCustomKernelLib

SpecReg == InitReg /\ [][NextReg]_vars

\* -------------------------------------------------- concurrent registration
\* Two threads load a library each at the same time: each runs
\* RegisterKernelWithMetaInfo on a list of its own.  The code takes no lock,
\* so the calls interleave between the operations on the KernelFactory: the
\* HasCompatiblePtenKernel call, the find in kernels()[op_type], and the
\* assignment to kernels()[op_type][kernel_key].  The kernels of thread 1 use
\* one kernel function and those of thread 2 another.
LoadSignatures(t) ==
  {OpKernelInfo(op, key, IF t = 1 THEN "write_inplace" ELSE "replace_storage") :
     op \in OpNames, key \in KernelKeys}

LoadLists(t) ==
  UNION {[1..n -> LoadSignatures(t)] : n \in 1..MaxLoadSigs}

LoadStep(t, ld, kernels_) ==
  /\ loads' = [loads EXCEPT ![t] = ld]
  /\ kernels' = kernels_
  /\ UNCHANGED <<pending, last, parse, runVars>>

\* 1.Check whether this kernel is valid for a specific operator
RegCheckOpReady(t) ==
  LET ld == loads[t]
      info == ld.op_kernel_infos[ld.i + 1]
  IN
  /\ ld.pc = "check_op"
  /\ IF CheckOpReady(kernels, info.op_name)
       THEN LoadStep(t, [ld EXCEPT !.pc = "check_key"], kernels)
       ELSE LoadStep(t, [ld EXCEPT !.pc = "done", !.error = NotReadyError],
                     kernels)

\* 2.Check whether kernel_key has been already registed
RegCheckKeyFree(t) ==
  LET ld == loads[t]
      info == ld.op_kernel_infos[ld.i + 1]
  IN
  /\ ld.pc = "check_key"
  /\ IF CheckKeyFree(kernels, info.op_name, info.kernel_key)
       THEN LoadStep(t, [ld EXCEPT !.pc = "install"],
                     KernelsAt(kernels, info.op_name))
       ELSE LoadStep(t, [ld EXCEPT !.pc = "done", !.error = AlreadyExistedError],
                     KernelsAt(kernels, info.op_name))

\* kernels()[op_type][kernel_key] = kernel, and the next round of the loop;
\* the log records the signature and the table the assignment met
RegInstall(t) ==
  LET ld == loads[t]
      info == ld.op_kernel_infos[ld.i + 1]
  IN
  /\ ld.pc = "install"
  /\ LoadStep(t,
       [ld EXCEPT !.i = @ + 1,
                  !.pc = IF ld.i + 1 >= Len(ld.op_kernel_infos)
                           THEN "done" ELSE "check_op",
                  !.log = Append(@, [info |-> info, before |-> kernels,
                                     outcome |-> "installed"])],
       SetKernel(kernels, info.op_name, info.kernel_key, Kernel(info)))

InitLoads ==
  /\ NoCalls
  /\ kernels = BuiltinKernels
  /\ pending = <<>>
  /\ last = NoCall
  /\ parse = NoParse
  /\ \E lists \in [Threads -> UNION {LoadLists(t) : t \in Threads}] :
       /\ \A t \in Threads : lists[t] \in LoadLists(t)
       /\ loads = [t \in Threads |->
                     [op_kernel_infos |-> lists[t], i |-> 0, pc |-> "check_op",
                      error |-> NoError, log |-> <<>>]]

NextLoads ==
  \E t \in Threads :
    \/ RegCheckOpReady(t)
    \/ RegCheckKeyFree(t)
    \/ RegInstall(t)

SpecLoads == InitLoads /\ [][NextLoads]_vars

\* ------------------------------------------------------------------ ParseArgs
\* The tensor argument definitions a plugin can declare for ParseArgs.
ParseBackends == {"CPU", "CUSTOM_0"}
ParseLayouts == {"ANY", "NCHW"}
ParseDataTypes == {"FLOAT32", "INT64"}

ParseTensorArgDefs ==
  [backend : ParseBackends, layout : ParseLayouts, dtype : ParseDataTypes,
   is_vector : BOOLEAN]

ParseSignatures(n_in, n_out, n_attr) ==
  [op_name : {"op_a"}, kernel_key : {"key_2"}, backend : {"CPU"},
   input_defs : [1..n_in -> ParseTensorArgDefs],
   output_defs : [1..n_out -> ParseTensorArgDefs],
   attribute_defs : [1..n_attr -> AttributeArgDefs],
   kernel_fn : {"noop"}]

\* ParseArgs(kernel_info, kernel.mutable_args_def()) on the args_def of a new
\* phi::Kernel
CallParseArgs ==
  /\ parse.pc = "call"
  /\ parse' = [pc |-> "done", args_def |-> ParseArgs(kernel_info)]
  /\ UNCHANGED <<kernels, pending, last, loads, runVars>>

InitParse ==
  \E n_in \in 0..MaxParseDefs : \E n_out \in 0..(MaxParseDefs - n_in) :
  \E n_attr \in 0..(MaxParseDefs - n_in - n_out) :
    /\ kernel_info \in ParseSignatures(n_in, n_out, n_attr)
    /\ with_custom_device = FALSE
    /\ pc = [t \in Threads |-> "idle"]
    /\ ctx = [t \in Threads |-> EmptyContext]
    /\ ctx0 = ctx
    /\ frame = [t \in Threads |-> EmptyFrame]
    /\ heap = <<>>
    /\ tensors = <<>>
    /\ error = [t \in Threads |-> ""]
    /\ invoked = [t \in Threads |-> 0]
    /\ writes = [t \in Threads |-> {}]
    /\ kernels = BuiltinKernels
    /\ pending = <<>>
    /\ last = NoCall
    /\ loads = [t \in Threads |-> NoLoad]
    /\ parse = [pc |-> "call", args_def |-> EmptyArgsDef]

NextParse == CallParseArgs

SpecParse == InitParse /\ [][NextParse]_vars

\* One call, by thread 1, of the closure of any signature on any context.
Init ==
  \E n_in \in 0..MaxDefs : \E n_out \in 0..(MaxDefs - n_in) :
  \E n_attr \in 0..(MaxDefs - n_in - n_out) :
  \E sig \in KernelSignatures(n_in, n_out, n_attr) :
  \E inlens \in ListLens(sig.input_defs) :
  \E outlens \in ListLens(sig.output_defs) :
  \E nattr \in AttrCounts(n_attr) :
    /\ kernel_info = sig
    /\ with_custom_device \in BOOLEAN
    /\ pc = [t \in Threads |-> IF t = 1 THEN "check" ELSE "idle"]
    /\ ctx = [t \in Threads |->
                IF t = 1 THEN MakeContext(t, sig, inlens, outlens, nattr)
                         ELSE EmptyContext]
    /\ ctx0 = ctx
    /\ frame = [t \in Threads |-> EmptyFrame]
    /\ heap = <<>>
    /\ tensors = <<>>
    /\ error = [t \in Threads |-> ""]
    /\ invoked = [t \in Threads |-> 0]
    /\ writes = [t \in Threads |-> {}]
    /\ RegInit

Next ==
  \E t \in Threads :
    \/ RunCheckSizes(t)
    \/ RunMapInputs(t)
    \/ RunMapAttrs(t)
    \/ RunMapOutputs(t)
    \/ RunDeviceCtx(t)
    \/ RunInvoke(t)
    \/ RunMapBack(t)
    \/ RunDeleteOutputs(t)

Spec == Init /\ [][Next]_vars

\* Two threads call the same closure at the same time, each on a context of
\* its own.  Attribute mapping touches nothing the threads share, so one
\* supported and one unsupported attribute type stand for all, and each
\* context holds as many attributes as the signature declares.
ConcAttributeArgDefs == {[type_index |-> "int"], [type_index |-> "string"]}

InitConc ==
  \E n_in \in 0..MaxConcDefs : \E n_out \in 0..(MaxConcDefs - n_in) :
  \E n_attr \in 0..(MaxConcDefs - n_in - n_out) :
  \E sig \in KernelSignatures(n_in, n_out, n_attr) :
  \E inlens \in [Threads -> ListLens(sig.input_defs)] :
  \E outlens \in [Threads -> ListLens(sig.output_defs)] :
  \E nattr \in [Threads -> {n_attr}] :
    /\ \A i \in 1..n_attr : sig.attribute_defs[i] \in ConcAttributeArgDefs
    /\ kernel_info = sig
    /\ with_custom_device \in BOOLEAN
    /\ pc = [t \in Threads |-> "check"]
    /\ ctx = [t \in Threads |->
                MakeContext(t, sig, inlens[t], outlens[t], nattr[t])]
    /\ ctx0 = ctx
    /\ frame = [t \in Threads |-> EmptyFrame]
    /\ heap = <<>>
    /\ tensors = <<>>
    /\ error = [t \in Threads |-> ""]
    /\ invoked = [t \in Threads |-> 0]
    /\ writes = [t \in Threads |-> {}]
    /\ RegInit

SpecConc == InitConc /\ [][Next]_vars

\* ==================================================================== claims
\* the output handle the user function sees for element elem of the output
\* declared at position k
ScalarRank(defs, k) == Cardinality({i \in 1..k : ~defs[i].is_vector})
VectorRank(defs, k) == Cardinality({i \in 1..k : defs[i].is_vector})

IsHandleOf(defs, k, w) ==
  IF defs[k].is_vector
    THEN w.kind = "v" /\ w.idx = VectorRank(defs, k)
    ELSE w.kind = "s" /\ w.idx = ScalarRank(defs, k) /\ w.elem = 1

\* the slot of the context c that holds element elem of output k
SlotOf(c, k, elem) == c.outputs[c.output_range[k][1] + elem]

\* every write of kind mode reached the slot of its position
WritesReachSlots(t, mode) ==
  \A w \in writes[t] : \A k \in 1..Len(kernel_info.output_defs) :
    (w.mode = mode /\ IsHandleOf(kernel_info.output_defs, k, w))
      => SlotOf(ctx[t], k, w.elem) = w.val

\* the three size invariants, of the context as the call received it
SizeInvariants(t) ==
  /\ Len(ctx0[t].inputs) >= Len(kernel_info.input_defs)
  /\ Len(ctx0[t].outputs) >= Len(kernel_info.output_defs)
  /\ Len(ctx0[t].attrs) = Len(kernel_info.attribute_defs)

\* the fixed enumerated set of attribute types
EnumeratedAttrTypes ==
  {"bool", "int", "int64_t", "float", "double", "float16", "DataType",
   "Scalar", "vector_int64_t", "vector_int", "ScalarArray"}

HasUnknownAttr ==
  \E i \in 1..Len(kernel_info.attribute_defs) :
    kernel_info.attribute_defs[i].type_index \notin EnumeratedAttrTypes

\* C1: after a call on a CPU kernel whose context satisfies the size
\* invariants, every value the user function wrote in place into the storage
\* of an output handle is in the context's slot of that position, for scalar
\* outputs and for every element of list outputs.
C1_InPlaceWriteReachesSlot ==
  \A t \in Threads :
    (pc[t] = "done" /\ kernel_info.backend = "CPU" /\ SizeInvariants(t))
      => WritesReachSlots(t, "inplace")

\* a list output of two elements declared before a scalar output, both written
C1_Witness ==
  /\ pc[1] = "done" /\ kernel_info.backend = "CPU" /\ invoked[1] = 1
  /\ Len(kernel_info.output_defs) = 2
  /\ kernel_info.output_defs[1].is_vector
  /\ ~kernel_info.output_defs[2].is_vector
  /\ \E w \in writes[1] : w.mode = "inplace" /\ w.kind = "v" /\ w.elem = 2
                          /\ ctx[1].outputs[2] = w.val
  /\ \E w \in writes[1] : w.mode = "inplace" /\ w.kind = "s"
                          /\ ctx[1].outputs[3] = w.val

\* C4: a call whose context violates a size invariant fails with
\* InvalidArgument, does not call the user function and leaves every input
\* and output slot of the context as it was.
C4_SizeViolationFailsUntouched ==
  \A t \in Threads :
    (pc[t] = "done" /\ ~SizeInvariants(t))
      => /\ error[t] = "InvalidArgument"
         /\ invoked[t] = 0
         /\ ctx[t].inputs = ctx0[t].inputs
         /\ ctx[t].outputs = ctx0[t].outputs

\* too few inputs, one of them in the range of a list-valued input
C4_Witness ==
  /\ pc[1] = "done" /\ error[1] = "InvalidArgument"
  /\ Len(ctx0[1].inputs) < Len(kernel_info.input_defs)
  /\ Len(ctx0[1].inputs) > 0
  /\ kernel_info.input_defs[1].is_vector
  /\ ctx[1].inputs = ctx0[1].inputs

\* C5, as stated: whenever an attribute definition has a type outside the
\* enumerated set, the call fails with Unimplemented, the user function is
\* not called and the output slots are as before.
C5_UnknownAttrUnimplemented ==
  \A t \in Threads :
    (pc[t] = "done" /\ HasUnknownAttr)
      => /\ error[t] = "Unimplemented"
         /\ invoked[t] = 0
         /\ ctx[t].outputs = ctx0[t].outputs

\* C5, amended: the same, for a context that satisfies the three size
\* invariants (the size check comes first and fails with InvalidArgument).
C5_UnknownAttrUnimplementedAfterSizeCheck ==
  \A t \in Threads :
    (pc[t] = "done" /\ HasUnknownAttr /\ SizeInvariants(t))
      => /\ error[t] = "Unimplemented"
         /\ invoked[t] = 0
         /\ ctx[t].outputs = ctx0[t].outputs

C5_Witness ==
  /\ pc[1] = "done" /\ error[1] = "Unimplemented" /\ HasUnknownAttr
  /\ Len(ctx[1].outputs) > 0
  /\ ctx[1].outputs = ctx0[1].outputs

\* C6: for an accelerator backend that resolves to a known device type, the
\* call sets the stream of the context's device context on dev_ctx, calls the
\* user function exactly once and writes the outputs back.
C6_AcceleratorKernelInvoked ==
  \A t \in Threads :
    (/\ pc[t] = "done" /\ error[t] = ""
     /\ kernel_info.backend # "CPU" /\ with_custom_device
     /\ GetGlobalDeviceType(DeviceTypeId(kernel_info.backend)) # "")
      => /\ frame[t].dev_ctx.stream = ctx0[t].dev_stream
         /\ invoked[t] = 1
         /\ WritesReachSlots(t, "inplace")

\* the backend cannot be resolved: no custom device support in the build, or
\* no device type registered for it
Unresolved ==
  /\ kernel_info.backend # "CPU"
  /\ ~with_custom_device \/ kernel_info.backend # "CUSTOM_0"

\* C7, as stated: whenever the backend is not CPU and cannot be resolved, the
\* call returns without an error, the user function is not called and the
\* output slots are as before.
C7_UnresolvedBackendSkipped ==
  \A t \in Threads :
    (pc[t] = "done" /\ Unresolved)
      => /\ error[t] = ""
         /\ invoked[t] = 0
         /\ ctx[t].outputs = ctx0[t].outputs

\* C7, amended: the same, for a context that satisfies the three size
\* invariants and a signature whose attribute types are all in the enumerated
\* set (the calls that reach the device context selection).
C7_UnresolvedBackendSkippedAfterChecks ==
  \A t \in Threads :
    (pc[t] = "done" /\ Unresolved /\ SizeInvariants(t) /\ ~HasUnknownAttr)
      => /\ error[t] = ""
         /\ invoked[t] = 0
         /\ ctx[t].outputs = ctx0[t].outputs

\* a custom device build, a backend with no registered device type, outputs
\* pre-allocated
C7_Witness ==
  /\ pc[1] = "done" /\ error[1] = "" /\ invoked[1] = 0
  /\ with_custom_device /\ kernel_info.backend = "CUSTOM_1"
  /\ kernel_info.kernel_fn = "write_inplace"
  /\ Len(frame[1].custom_outs) > 0
  /\ ctx[1].outputs = ctx0[1].outputs

\* C10: after a call on a CPU kernel, every value the user function put into
\* new storage that it gave to an output handle is in the context's slot of
\* that position.
C10_ReplacedStorageReachesSlot ==
  \A t \in Threads :
    (pc[t] = "done" /\ kernel_info.backend = "CPU")
      => WritesReachSlots(t, "replace")

\* the (op name, kernel key) of the log entry e was in the table it met
KeyPresent(e) ==
  /\ e.info.op_name \in DOMAIN e.before
  /\ e.info.kernel_key \in DOMAIN e.before[e.info.op_name]

\* C2: in every registration call, a signature whose (op name, kernel key) is
\* in the dispatch table when it is registered (a built-in kernel, or a custom
\* kernel of this or an earlier call) fails the call with the InvalidArgument
\* duplicate error, and the kernel under that key stays the one that was
\* there; no call replaces a kernel that was in the table before it.
C2_DuplicateKeyRejected ==
  /\ \A i \in 1..Len(last.log) :
       LET e == last.log[i] IN
       KeyPresent(e) =>
         /\ i = Len(last.log)
         /\ last.error = [class |-> "InvalidArgument",
                          what |-> "has been already existed"]
         /\ e.info.op_name \in DOMAIN kernels
         /\ e.info.kernel_key \in DOMAIN kernels[e.info.op_name]
         /\ kernels[e.info.op_name][e.info.kernel_key] =
              e.before[e.info.op_name][e.info.kernel_key]
  /\ \A op \in DOMAIN last.before :
       /\ op \in DOMAIN kernels
       /\ \A key \in DOMAIN last.before[op] :
            /\ key \in DOMAIN kernels[op]
            /\ kernels[op][key] = last.before[op][key]

\* a call registers again, with another kernel function, a key under which an
\* earlier call installed a custom kernel
C2_Witness ==
  /\ last.api = "RegisterKernelWithMetaInfo"
  /\ last.error.what = "has been already existed"
  /\ LET e == last.log[Len(last.log)] IN
       /\ KeyPresent(e)
       /\ e.info.kernel_key \in DOMAIN last.before[e.info.op_name]
       /\ last.before[e.info.op_name][e.info.kernel_key].kernel_fn.kernel_fn
            \in {"write_inplace", "replace_storage"}
       /\ last.before[e.info.op_name][e.info.kernel_key].kernel_fn # e.info
       /\ kernels[e.info.op_name][e.info.kernel_key].kernel_fn # e.info

\* C3: a signature whose op name has no kernel family in the dispatch table
\* fails the call with InvalidArgument and leaves the table as it met it; the
\* op names of the dispatch table are always the ones it started with.
C3_UnknownOpRejected ==
  /\ \A i \in 1..Len(last.log) :
       LET e == last.log[i] IN
       e.info.op_name \notin DOMAIN e.before =>
         /\ i = Len(last.log)
         /\ last.error.class = "InvalidArgument"
         /\ kernels = e.before
  /\ DOMAIN kernels = DOMAIN BuiltinKernels

\* a signature for an op the table does not have, after one that was installed
C3_Witness ==
  /\ Len(last.log) = 2
  /\ last.log[1].outcome = "installed"
  /\ last.log[2].info.op_name = "op_new"
  /\ last.error.class = "InvalidArgument"
  /\ kernels # last.before

C8_ConcurrentCallsIndependent ==
  [][/\ kernel_info' = kernel_info
     /\ \A t \in Threads :
          pc'[t] = "done" =>
            LET alone == RunKernelFunc(ctx0[t], kernel_info, with_custom_device)
            IN /\ ctx'[t] = alone.ctx
               /\ error'[t] = alone.error
               /\ invoked'[t] = alone.invoked]_vars

\* both calls ran the user function, thread 1 pre-allocated its outputs first
\* and thread 2 ran the user function first
C8_Witness ==
  /\ pc[1] = "done" /\ pc[2] = "done"
  /\ invoked[1] = 1 /\ invoked[2] = 1
  /\ kernel_info.kernel_fn = "replace_storage"
  /\ Len(frame[1].custom_vec_outs) = 1 /\ Len(frame[2].custom_vec_outs) = 1
  /\ Len(frame[1].custom_vec_outs[1]) = 2 /\ Len(frame[2].custom_vec_outs[1]) = 1
  /\ frame[1].custom_vec_outs[1][1] < frame[2].custom_vec_outs[1][1]
  /\ tensors[frame[1].custom_vec_outs[1][1]].impl
       > tensors[frame[2].custom_vec_outs[1][1]].impl
  /\ ctx[1].outputs # ctx[2].outputs

\* the elements of output k in the context c: 1 for a single tensor, one per
\* slot of the range for a list
ElemsOf(c, defs, k) ==
  IF defs[k].is_vector
    THEN 1..(c.output_range[k][2] - c.output_range[k][1])
    ELSE {1}

\* the retained pointer at the position of element elem of output k
RetainedPtr(fr, defs, k, elem) ==
  IF defs[k].is_vector
    THEN fr.custom_vec_outs_ptr[VectorRank(defs, k)][elem]
    ELSE fr.custom_outs_ptr[ScalarRank(defs, k)]

\* the output handle at the position of element elem of output k
HandleAt(fr, defs, k, elem) ==
  IF defs[k].is_vector
    THEN fr.custom_vec_outs[VectorRank(defs, k)][elem]
    ELSE fr.custom_outs[ScalarRank(defs, k)]

\* the output slots after a write-back that walks the outputs forward and
\* indexes the retained pointers by output position
ForwardWriteBack(defs, cs) ==
  [s \in 1..Len(cs.ctx.outputs) |->
     LET P == {<<k, j>> \in (1..Len(defs)) \X (1..Len(cs.ctx.outputs)) :
                 /\ j \in ElemsOf(cs.ctx, defs, k)
                 /\ cs.ctx.output_range[k][1] + j = s}
     IN IF P = {} THEN cs.ctx.outputs[s]
        ELSE LET p == CHOOSE x \in P : TRUE
             IN cs.heap[RetainedPtr(cs.frame, defs, p[1], p[2])]]

\* C11: pre-allocation leaves, at the position of every scalar output and of
\* every element of every list output, a handle and a retained pointer that
\* share the storage made from the slot of that position; and the reverse
\* order, pop-from-end write-back leaves in the output slots what a forward
\* write-back indexing the retained pointers by output position would leave.
C11_ReverseWriteBackPairsSlots ==
  [][\A t \in Threads :
       LET defs == kernel_info.output_defs IN
       /\ (pc[t] = "outputs" /\ pc'[t] = "devctx") =>
            \A k \in 1..Len(defs) : \A j \in ElemsOf(ctx[t], defs, k) :
              /\ tensors'[HandleAt(frame'[t], defs, k, j)].impl =
                   RetainedPtr(frame'[t], defs, k, j)
              /\ heap'[RetainedPtr(frame'[t], defs, k, j)] = SlotOf(ctx[t], k, j)
       /\ (pc[t] = "mapback" /\ pc'[t] = "cleanup") =>
            ctx'[t].outputs = ForwardWriteBack(defs, CallState(t))]_vars

\* a scalar output declared before a list output of two elements, every handle
\* written in place, every slot holding the marker of its own position
C11_Witness ==
  /\ pc[1] = "done" /\ invoked[1] = 1
  /\ kernel_info.kernel_fn = "write_inplace"
  /\ Len(kernel_info.output_defs) = 2
  /\ ~kernel_info.output_defs[1].is_vector
  /\ kernel_info.output_defs[2].is_vector
  /\ ctx[1].outputs = <<Marker("s", 1, 1), Marker("v", 1, 1), Marker("v", 1, 2)>>

\* C12: when a call has returned, every output handle that pre-allocation
\* allocated for it has been deleted, after a completed call of the user
\* function and after an early return from the device context selection alike.
C12_OutputHandlesReleased ==
  \A t \in Threads :
    pc[t] = "done" =>
      \A x \in OutHandles(frame[t]) : ~tensors[x.h].live

\* C13: when two concurrent loads register the same (op name, kernel key), at
\* most one of them installs its kernel and the other fails with the duplicate
\* error; no installation replaces a kernel that is in the dispatch table.
C13_ConcurrentDuplicateRejected ==
  /\ \A t \in Threads : \A i \in 1..Len(loads[t].log) :
       ~KeyPresent(loads[t].log[i])
  /\ \A t, u \in Threads : \A i \in 1..Len(loads[t].log) :
       \A j \in 1..Len(loads[u].op_kernel_infos) :
         LET e == loads[t].log[i]
             other == loads[u].op_kernel_infos[j]
         IN (/\ t # u /\ loads[u].pc = "done"
             /\ other.op_name = e.info.op_name
             /\ other.kernel_key = e.info.kernel_key)
              => loads[u].error = AlreadyExistedError

\* C14: after inputs mapping, the handles of custom_ins and the handle lists
\* of custom_vec_ins are as many as the input definitions; the k-th handle of
\* custom_ins wraps a copy of the slot at the start of the range of the k-th
\* single tensor input, and the k-th list of custom_vec_ins wraps, in slot
\* order, exactly the slots of the range of the k-th list-valued input.
C14_InputsMappedInOrder ==
  \A t \in Threads :
    pc[t] = "attrs" =>
      LET defs == kernel_info.input_defs
          fr == frame[t]
          c == ctx0[t]
      IN
      /\ Len(fr.custom_ins) + Len(fr.custom_vec_ins) = Len(defs)
      /\ Len(fr.custom_ins) = ScalarRank(defs, Len(defs))
      /\ Len(fr.custom_vec_ins) = VectorRank(defs, Len(defs))
      /\ \A k \in 1..Len(defs) :
           LET range == c.input_range[k] IN
           IF defs[k].is_vector
             THEN
               LET v == fr.custom_vec_ins[VectorRank(defs, k)] IN
               /\ Len(v) = range[2] - range[1]
               /\ \A j \in 1..Len(v) : heap[v[j].impl] = c.inputs[range[1] + j]
             ELSE
               heap[fr.custom_ins[ScalarRank(defs, k)].impl] = c.inputs[range[1] + 1]

\* a list-valued input of two tensors declared before a single tensor input
C14_Witness ==
  /\ pc[1] = "attrs"
  /\ Len(kernel_info.input_defs) = 2
  /\ kernel_info.input_defs[1].is_vector
  /\ ~kernel_info.input_defs[2].is_vector
  /\ Len(frame[1].custom_vec_ins) = 1 /\ Len(frame[1].custom_ins) = 1
  /\ Len(frame[1].custom_vec_ins[1]) = 2
  /\ heap[frame[1].custom_vec_ins[1][1].impl] = ctx0[1].inputs[1]
  /\ heap[frame[1].custom_vec_ins[1][2].impl] = ctx0[1].inputs[2]
  /\ heap[frame[1].custom_ins[1].impl] = ctx0[1].inputs[3]

\* C15: in every state of a call, every slot of a single tensor input holds
\* what it held when the call began, whatever the user function does to the
\* input handles; an input slot that changed is a slot of the range of a
\* list-valued input, and it was moved out of the context.
C15_SingleInputSlotsUnchanged ==
  \A t \in Threads :
    LET defs == kernel_info.input_defs IN
    pc[t] # "idle" =>
    /\ Len(ctx[t].inputs) = Len(ctx0[t].inputs)
    /\ \A k \in 1..Len(defs) :
         ~defs[k].is_vector =>
           ctx[t].inputs[ctx0[t].input_range[k][1] + 1] =
             ctx0[t].inputs[ctx0[t].input_range[k][1] + 1]
    /\ \A s \in 1..Len(ctx0[t].inputs) :
         ctx[t].inputs[s] # ctx0[t].inputs[s] =>
           /\ ctx[t].inputs[s] = NullTensor
           /\ \E k \in 1..Len(defs) :
                /\ defs[k].is_vector
                /\ s > ctx0[t].input_range[k][1]
                /\ s <= ctx0[t].input_range[k][2]

\* a call whose user function wrote to the handle of its single tensor input
\* and replaced the storage of the handle of its list-valued input
C15_Witness ==
  /\ pc[1] = "done" /\ invoked[1] = 1
  /\ kernel_info.kernel_fn = "write_inputs"
  /\ Len(kernel_info.input_defs) = 2
  /\ ~kernel_info.input_defs[1].is_vector
  /\ kernel_info.input_defs[2].is_vector
  /\ Len(ctx0[1].inputs) = 2
  /\ heap[frame[1].custom_ins[1].impl] = InputMarker("s", 1, 1)
  /\ heap[frame[1].custom_vec_ins[1][1].impl] = InputMarker("v", 1, 1)
  /\ ctx[1].inputs[1] = ctx0[1].inputs[1]
  /\ ctx[1].inputs[2] = NullTensor

\* C16: when the user function is about to be called, every output handle
\* holds a copy of what the output slot of its position holds; and after a
\* call on a CPU kernel whose user function wrote to no output handle, every
\* output slot holds what it held before the call.
C16_OutputsSeededFromSlots ==
  \A t \in Threads :
    LET defs == kernel_info.output_defs IN
    /\ pc[t] \in {"devctx", "invoke"} =>
         \A k \in 1..Len(defs) : \A j \in ElemsOf(ctx[t], defs, k) :
           heap[tensors[HandleAt(frame[t], defs, k, j)].impl] = SlotOf(ctx[t], k, j)
    /\ (pc[t] = "done" /\ kernel_info.backend = "CPU" /\ writes[t] = {}) =>
         ctx[t].outputs = ctx0[t].outputs

\* a completed call of the user function that writes nothing, with a list
\* output of two elements and a scalar output written back
C16_Witness ==
  /\ pc[1] = "done" /\ invoked[1] = 1
  /\ kernel_info.backend = "CPU" /\ kernel_info.kernel_fn = "noop"
  /\ writes[1] = {}
  /\ Len(kernel_info.output_defs) = 2
  /\ kernel_info.output_defs[1].is_vector
  /\ ~kernel_info.output_defs[2].is_vector
  /\ Len(ctx0[1].outputs) = 3
  /\ ctx[1].outputs = ctx0[1].outputs

\* the argument definition entry that stands for the tensor definition d
IsEntryOf(entry, d) ==
  /\ entry.backend = d.backend
  /\ entry.layout = d.layout
  /\ entry.dtype = d.dtype
  /\ d.is_vector => entry.type_index = "vector<DenseTensor>"
  /\ ~d.is_vector => entry.type_index = "DenseTensor"

\* C17: the argument definition record ParseArgs makes from a signature has
\* one input entry per input definition and one output entry per output
\* definition, in the same order, each with the definition's backend, layout
\* and dtype and tagged as tensor list exactly when the definition is
\* list-valued, and the attribute type identifiers in the same order,
\* unchanged; the call ends for every signature.
C17_ParseArgsMirrorsSignature ==
  /\ parse.pc = "done" =>
       LET a == parse.args_def IN
       /\ Len(a.input_defs) = Len(kernel_info.input_defs)
       /\ \A i \in 1..Len(a.input_defs) :
            IsEntryOf(a.input_defs[i], kernel_info.input_defs[i])
       /\ Len(a.output_defs) = Len(kernel_info.output_defs)
       /\ \A i \in 1..Len(a.output_defs) :
            IsEntryOf(a.output_defs[i], kernel_info.output_defs[i])
       /\ Len(a.attribute_defs) = Len(kernel_info.attribute_defs)
       /\ \A i \in 1..Len(a.attribute_defs) :
            a.attribute_defs[i].type_index =
              kernel_info.attribute_defs[i].type_index
  /\ parse.pc = "call" => ENABLED CallParseArgs

\* a list-valued input and a single tensor output that differ in backend,
\* layout and dtype
C17_Witness ==
  /\ parse.pc = "done"
  /\ Len(kernel_info.input_defs) = 1 /\ Len(kernel_info.output_defs) = 1
  /\ kernel_info.input_defs[1].is_vector
  /\ ~kernel_info.output_defs[1].is_vector
  /\ kernel_info.input_defs[1].backend # kernel_info.output_defs[1].backend
  /\ kernel_info.input_defs[1].layout # kernel_info.output_defs[1].layout
  /\ kernel_info.input_defs[1].dtype # kernel_info.output_defs[1].dtype
  /\ parse.args_def.input_defs[1].type_index = "vector<DenseTensor>"
  /\ parse.args_def.output_defs[1].type_index = "DenseTensor"

\* the signatures of the groups, in the order the call meets them
RECURSIVE Flatten(_)
Flatten(groups) ==
  IF groups = <<>> THEN <<>> ELSE groups[1] \o Flatten(Tail(groups))

\* the table before with the kernels of the first n signatures installed
RECURSIVE WithInstalled(_, _, _)
WithInstalled(before, sigs, n) ==
  IF n = 0 THEN before
  ELSE SetKernel(WithInstalled(before, sigs, n - 1),
                 sigs[n].op_name, sigs[n].kernel_key, Kernel(sigs[n]))

\* C18: a registration call that fails at a signature has met the signatures
\* in list order, group after group; the kernels of the signatures before the
\* failing one, of this group and of the groups before it, are in the dispatch
\* table, and nothing else of the call is: the failing signature and the ones
\* after it are not installed.
C18_FailedBatchKeepsPrefix ==
  (last.api # "none" /\ last.error # NoError) =>
    LET sigs == Flatten(last.groups)
        n == Len(last.log)
    IN
    /\ n >= 1 /\ n <= Len(sigs)
    /\ \A j \in 1..n : last.log[j].info = sigs[j]
    /\ last.log[n].outcome \in {"not_ready", "already_existed"}
    /\ \A j \in 1..(n - 1) :
         /\ last.log[j].outcome = "installed"
         /\ kernels[sigs[j].op_name][sigs[j].kernel_key] = Kernel(sigs[j])
    /\ kernels = WithInstalled(last.before, sigs, n - 1)

\* a map of two op name groups: the kernel of the first group is installed,
\* the signature of the second fails the duplicate check
C18_Witness ==
  /\ last.api = "RegisterKernelWithMetaInfoMap"
  /\ Len(last.groups) = 2
  /\ Len(last.log) = 2
  /\ last.log[1].outcome = "installed"
  /\ last.log[2].outcome = "already_existed"
  /\ kernels # last.before
  /\ kernels[last.log[1].info.op_name][last.log[1].info.kernel_key] =
       Kernel(last.log[1].info)

====
